---- MODULE Spec2Model ----
(***************************************************************************)
(* Model of otelsink (src/otelsink/main.go): a gRPC server whose three     *)
(* Export handlers (traces, metrics, logs) log the request and hand it to  *)
(* Sink.Export, which stores it as the file <dir>/<stream>/<UnixNano>.     *)
(*                                                                         *)
(* Every in-flight RPC runs on its own goroutine; each system call and     *)
(* library call of a handler is one atomic step, so the interleavings of   *)
(* the steps are the interleavings the operating system allows.            *)
(***************************************************************************)
EXTENDS Integers, Sequences, FiniteSets, Bags, TLC

\* ---------------------------------------------------------------- bounds

\* Number of RPCs that arrive during one run of the process.
NumCalls == 2

\* The wall clock returns an instant in FirstTime..MaxTime (nanoseconds).
MaxTime == 10

FirstTime == MaxTime - 1

\* The number of bytes a write that fails has already put into the file.
ShortWrite == 1

Calls == 1..NumCalls

Times == FirstTime..MaxTime

\* ------------------------------------------------------- program constants

\* The three registered services, one handler each.
Services == {"trace", "metrics", "logs"}

\* Sink.dir, set once in run.
SinkDir == "data"

\* The tag byte of field 1 with wire type 2 (length-delimited): (1 << 3) | 2.
Field1Tag == 10

\* A byte that is never part of valid UTF-8.
BadByte == 255

\* Export requests. A request is its list of field-1 entries (resource_spans,
\* resource_metrics, resource_logs), each reduced to the bytes of its payload.
ShortReq == << <<65>> >>

LongReq == << <<65, 66>> >>

BadReq == << <<BadByte>> >>

Requests == {ShortReq, LongReq, BadReq}

\* ------------------------------------------------------------ pure helpers

DigitChar == <<"0", "1", "2", "3", "4", "5", "6", "7", "8", "9">>

RECURSIVE FormatInt(_)
\* strconv.FormatInt(n, 10) for n >= 0: the decimal digits, most significant first.
FormatInt(n) ==
    IF n < 10 THEN << DigitChar[n + 1] >>
    ELSE Append(FormatInt(n \div 10), DigitChar[(n % 10) + 1])

\* A mutant of FileName: the name taken from the clock in microseconds.
FileNameMicro(t) == FormatInt(t \div 1000)

\* n := strconv.FormatInt(time.Now().UnixNano(), 10), t the instant in ns.
FileName(t) == FormatInt(t)

\* filepath.Join(s.dir, stream, n): a path is the list of its components.
JoinPath(dir, st, name) == <<dir, st, name>>

\* filepath.Dir(p)
DirOf(p) == SubSeq(p, 1, Len(p) - 1)

RootDir == <<SinkDir>>

ValidUTF8(s) == \A k \in 1..Len(s) : s[k] # BadByte

RECURSIVE MarshalEntries(_)
MarshalEntries(m) ==
    IF m = << >> THEN << >>
    ELSE <<Field1Tag, Len(Head(m))>> \o Head(m) \o MarshalEntries(Tail(m))

\* proto.Marshal: tag, length and payload of every entry, in order; an error
\* when a string is not valid UTF-8.
ProtoMarshal(m) ==
    IF \A k \in 1..Len(m) : ValidUTF8(m[k])
    THEN [ok |-> TRUE, bytes |-> MarshalEntries(m)]
    ELSE [ok |-> FALSE, bytes |-> << >>]

RECURSIVE ProtoUnmarshal(_)
\* proto.Unmarshal of a request: the inverse parse, failing on a wrong tag or
\* on a length that runs past the end of the input.
ProtoUnmarshal(b) ==
    IF b = << >> THEN [ok |-> TRUE, msg |-> << >>]
    ELSE IF Len(b) < 2 \/ b[1] # Field1Tag THEN [ok |-> FALSE, msg |-> << >>]
    ELSE IF b[2] > Len(b) - 2 THEN [ok |-> FALSE, msg |-> << >>]
    ELSE LET entry == SubSeq(b, 3, 2 + b[2])
             rest == ProtoUnmarshal(SubSeq(b, 3 + b[2], Len(b)))
         IN  IF rest.ok /\ ValidUTF8(entry)
             THEN [ok |-> TRUE, msg |-> <<entry>> \o rest.msg]
             ELSE [ok |-> FALSE, msg |-> << >>]

\* prototext.Format(req): one "field: payload" group per entry.
PrototextFormat(m) == [k \in 1..Len(m) |-> <<"1:", m[k]>>]

\* The prefix each handler gives its log line.
LogPrefix(svc) ==
    CASE svc = "trace" -> "trace.Export"
      [] svc = "metrics" -> "metrics.Export"
      [] svc = "logs" -> "logs.Export"

\* A mutant of StreamFor: every handler passes the trace handler's stream.
StreamForCopied(svc) == "traces"

\* The stream name each handler passes to s.sink.Export.
StreamFor(svc) ==
    CASE svc = "trace" -> "traces"
      [] svc = "metrics" -> "metrics"
      [] svc = "logs" -> "logs"

\* A write of data at offset 0 through a descriptor opened without O_APPEND:
\* the first Len(data) bytes are replaced, bytes beyond them stay.
WriteAt0(old, data) ==
    IF Len(data) >= Len(old) THEN data
    ELSE data \o SubSeq(old, Len(data) + 1, Len(old))

\* ------------------------------------------------------------------ state

VARIABLES
    mainPc,     \* where main/run stands: "listen", "serve" or "exited"
    ctxDone,    \* the context of signal.NotifyContext has been cancelled
    exitCode,   \* the exit status of the process, -1 while it runs
    dirs,       \* the directories that exist, as paths
    files,      \* the regular files that exist: path -> contents
    call,       \* the RPCs: call[i] is the state of the goroutine serving i
    log,        \* the lines klog has written, as a bag (their order is not kept)
    trace,      \* every mutating system call issued so far (history)
    lastWriter, \* path -> the call whose write to it returned last (history)
    stderr      \* the lines main has printed to standard error

vars == <<mainPc, ctxDone, exitCode, dirs, files, call, log, trace, lastWriter, stderr>>

NoErr == [text |-> "", path |-> << >>, cause |-> ""]

NoResp == [code |-> "", message |-> << >>]

IdleCall ==
    [pc |-> "idle", svc |-> "", stream |-> "", msg |-> << >>, t |-> 0,
     p |-> << >>, sawDir |-> FALSE, mkerr |-> "", b |-> << >>, err |-> NoErr,
     resp |-> NoResp,
     cancelled |-> FALSE, delivered |-> FALSE]

\* The state when run is about to call net.Listen: the sink and the three
\* servers are built, "listening on" is logged, and the storage root does
\* not exist yet (once a first call has made it, the later calls run as they
\* would with a root that was there from the start).
Init ==
    /\ mainPc = "listen"
    /\ ctxDone = FALSE
    /\ exitCode = -1
    /\ dirs = {}
    /\ files = << >>
    /\ call = [i \in Calls |-> IdleCall]
    /\ log = SetToBag({[call |-> 0, op |-> "listening on", text |-> << >>]})
    /\ trace = {}
    /\ lastWriter = << >>
    /\ stderr = << >>

\* -------------------------------------------------------------- main / run

\* What run returns when net.Listen fails, what ctx.Err() is after the
\* interrupt, and what grpcServer.Serve returns when its listener fails.
ListenFailed == "failed to listen on \"localhost:3000\""

ContextCanceled == "context canceled"

ServeFailed == "accept failed"

\* A mutant of Listen: the error of net.Listen is logged and run goes on to
\* create and start the server.
ListenAnyway ==
    /\ mainPc = "listen"
    /\ \E ok \in BOOLEAN :
         /\ mainPc' = "serve"
         /\ exitCode' = exitCode
         /\ stderr' = IF ok THEN stderr ELSE Append(stderr, ListenFailed)
    /\ UNCHANGED <<ctxDone, dirs, files, call, log, trace, lastWriter>>

\* lis, err := net.Listen("tcp", listen); an error makes run return it, and
\* main prints it and exits with status 1. Only after a successful Listen
\* are the server created, the services registered and Serve started.
Listen ==
    /\ mainPc = "listen"
    /\ \E ok \in BOOLEAN :
         IF ok THEN /\ mainPc' = "serve"
                    /\ exitCode' = exitCode
                    /\ stderr' = stderr
               ELSE /\ mainPc' = "exited"
                    /\ exitCode' = 1
                    /\ stderr' = Append(stderr, ListenFailed)
    /\ UNCHANGED <<ctxDone, dirs, files, call, log, trace, lastWriter>>

\* os.Interrupt arrives: signal.NotifyContext cancels ctx.
Interrupt ==
    /\ mainPc # "exited"
    /\ ~ctxDone
    /\ ctxDone' = TRUE
    /\ UNCHANGED <<mainPc, exitCode, dirs, files, call, log, trace, lastWriter, stderr>>

\* The process exits: the goroutines of the calls in flight end where they
\* stand, and of such a call only what it was asked and the path it had
\* computed are kept.
Killed(c) ==
    IF c.pc \in {"idle", "done"} THEN c
    ELSE [IdleCall EXCEPT !.pc = "killed", !.svc = c.svc, !.stream = c.stream,
                          !.msg = c.msg, !.t = c.t, !.p = c.p]

\* A mutant of SelectCtxDone: on interrupt the server is stopped gracefully,
\* the calls in flight are awaited, and run returns nil.
SelectCtxDoneGraceful ==
    /\ mainPc = "serve"
    /\ ctxDone
    /\ \A i \in Calls : call[i].pc \in {"idle", "done"}
    /\ mainPc' = "exited"
    /\ exitCode' = 0
    /\ UNCHANGED <<ctxDone, dirs, files, call, log, trace, lastWriter, stderr>>

\* case <-ctx.Done(): return ctx.Err(); main prints it and exits with 1.
SelectCtxDone ==
    /\ mainPc = "serve"
    /\ ctxDone
    /\ mainPc' = "exited"
    /\ exitCode' = 1
    /\ stderr' = Append(stderr, ContextCanceled)
    /\ call' = [i \in Calls |-> Killed(call[i])]
    /\ UNCHANGED <<ctxDone, dirs, files, log, trace, lastWriter>>

\* case err := <-listenErr: grpcServer.Serve returned (nothing stops the
\* server, so it returned an error); main exits with 1.
SelectListenErr ==
    /\ mainPc = "serve"
    /\ mainPc' = "exited"
    /\ exitCode' = 1
    /\ stderr' = Append(stderr, ServeFailed)
    /\ call' = [i \in Calls |-> Killed(call[i])]
    /\ UNCHANGED <<ctxDone, dirs, files, log, trace, lastWriter>>

\* ------------------------------------------------------------ the handlers

\* A mutant of Running: a cancelled call's goroutine is stopped.
RunningUntilCancelled(i, at) ==
    mainPc = "serve" /\ call[i].pc = at /\ ~call[i].cancelled

\* The goroutine of call i runs while the process serves.
Running(i, at) == mainPc = "serve" /\ call[i].pc = at

\* A mutant of HandlerResult: the error of Sink.Export is dropped.
HandlerResultIgnore(err) == [code |-> "OK", message |-> << >>]

\* What a handler returns for the error of Sink.Export: the empty response,
\* or status.Errorf(codes.Internal, "error writing data").
HandlerResult(err) ==
    IF err = NoErr THEN [code |-> "OK", message |-> << >>]
    ELSE [code |-> "Internal", message |-> <<"error writing data">>]

\* The transport decodes a request and dispatches it to the handler of its
\* service.
Receive(i) ==
    /\ Running(i, "idle")
    /\ \E svc \in Services, m \in Requests :
         call' = [call EXCEPT ![i].pc = "klog", ![i].svc = svc, ![i].msg = m]
    /\ UNCHANGED <<mainPc, ctxDone, exitCode, dirs, files, log, trace, lastWriter, stderr>>

\* A mutant of LogRequest: the line is written at a verbosity that is off.
LogRequestQuiet(i) ==
    /\ Running(i, "klog")
    /\ call' = [call EXCEPT ![i].pc = "now"]
    /\ UNCHANGED <<mainPc, ctxDone, exitCode, dirs, files, log, trace, lastWriter, stderr>>

\* klog.Infof("trace.Export %v", prototext.Format(req))
LogRequest(i) ==
    /\ Running(i, "klog")
    /\ log' = log (+) SetToBag({[call |-> i, op |-> LogPrefix(call[i].svc),
                                  text |-> PrototextFormat(call[i].msg)]})
    /\ call' = [call EXCEPT ![i].pc = "now"]
    /\ UNCHANGED <<mainPc, ctxDone, exitCode, dirs, files, trace, lastWriter, stderr>>

\* The caller cancels the RPC (or its connection goes away) while the
\* handler runs: the handler's ctx is cancelled.
Cancel(i) ==
    /\ mainPc = "serve"
    /\ call[i].pc \notin {"idle", "done"}
    /\ ~call[i].cancelled
    /\ call' = [call EXCEPT ![i].cancelled = TRUE]
    /\ UNCHANGED <<mainPc, ctxDone, exitCode, dirs, files, log, trace, lastWriter, stderr>>

\* The handler returns; the response reaches the caller unless the call was
\* cancelled.
Return(i) ==
    /\ Running(i, "ret")
    /\ call' = [call EXCEPT ![i].pc = "done",
                            ![i].resp = HandlerResult(call[i].err),
                            ![i].delivered = ~call[i].cancelled]
    /\ UNCHANGED <<mainPc, ctxDone, exitCode, dirs, files, log, trace, lastWriter, stderr>>

\* -------------------------------------------------------------- Sink.Export

\* The error Sink.Export wraps with fmt.Errorf and returns.
SinkErr(text, path, cause) == [text |-> text, path |-> path, cause |-> cause]

\* s.sink.Export(ctx, "traces", req) is entered:
\* n := strconv.FormatInt(time.Now().UnixNano(), 10); p := filepath.Join(...)
\* The wall clock may return any instant, also one another call has seen.
TakeTimestamp(i) ==
    /\ Running(i, "now")
    /\ \E t \in Times :
         LET st == StreamFor(call[i].svc) IN
         call' = [call EXCEPT ![i].pc = "statStream", ![i].stream = st, ![i].t = t,
                              ![i].p = JoinPath(SinkDir, st, FileName(t))]
    /\ UNCHANGED <<mainPc, ctxDone, exitCode, dirs, files, log, trace, lastWriter, stderr>>

\* A mutant of StatStep: MkdirAll without its fast path.
StatStepSlow(i, at, path, found, absent) ==
    /\ Running(i, at)
    /\ call' = [call EXCEPT ![i].pc = absent,
                            ![i].sawDir = IF at = "statStream" THEN path \in dirs ELSE @]
    /\ UNCHANGED <<mainPc, ctxDone, exitCode, dirs, files, log, trace, lastWriter, stderr>>

\* os.MkdirAll, fast path: Stat(path); a directory found ends MkdirAll of
\* that path with success, anything else goes on to the slow path. sawDir
\* keeps what the Stat of the stream directory found.
StatStep(i, at, path, found, absent) ==
    /\ Running(i, at)
    /\ call' = [call EXCEPT ![i].pc = IF path \in dirs THEN found ELSE absent,
                            ![i].sawDir = IF at = "statStream" THEN path \in dirs ELSE @]
    /\ UNCHANGED <<mainPc, ctxDone, exitCode, dirs, files, log, trace, lastWriter, stderr>>

\* mkdir(2): the outcome on the directories ds.
MkdirRes(ds, path, fault) ==
    IF path \in ds THEN "EEXIST"
    ELSE IF Len(path) > 1 /\ DirOf(path) \notin ds THEN "ENOENT"
    ELSE IF fault THEN "EIO"
    ELSE "ok"

\* os.MkdirAll, slow path: Mkdir(path, perm); an error leads to the Lstat
\* double check.
MkdirStep(i, at, path, next, lstat) ==
    /\ Running(i, at)
    /\ \E fault \in {f \in BOOLEAN : f => MkdirRes(dirs, path, FALSE) = "ok"} :
         LET res == MkdirRes(dirs, path, fault) IN
         /\ dirs' = IF res = "ok" THEN dirs \cup {path} ELSE dirs
         /\ trace' = trace \cup {[call |-> i, op |-> "mkdir", path |-> path]}
         /\ call' = [call EXCEPT ![i].pc = IF res = "ok" THEN next ELSE lstat,
                                 ![i].mkerr = IF res = "ok" THEN "" ELSE res]
    /\ UNCHANGED <<mainPc, ctxDone, exitCode, files, log, lastWriter, stderr>>

\* os.MkdirAll after a failed Mkdir: dir, err1 := Lstat(path); a directory
\* there makes MkdirAll succeed, otherwise Mkdir's error is returned and
\* Sink.Export returns "failed to create directory".
LstatStep(i, at, path, next) ==
    /\ Running(i, at)
    /\ call' = [call EXCEPT
                    ![i].pc = IF path \in dirs THEN next ELSE "ret",
                    ![i].mkerr = "",
                    ![i].err = IF path \in dirs THEN NoErr
                               ELSE SinkErr("failed to create directory",
                                            DirOf(call[i].p), call[i].mkerr)]
    /\ UNCHANGED <<mainPc, ctxDone, exitCode, dirs, files, log, trace, lastWriter, stderr>>

\* os.MkdirAll(filepath.Dir(p), 0755): Stat of the stream directory, ...
StatStream(i) ==
    StatStep(i, "statStream", DirOf(call[i].p), "marshal", "statRoot")

\* ... MkdirAll of its parent (Stat, Mkdir, Lstat), ...
StatRoot(i) == StatStep(i, "statRoot", RootDir, "mkdirStream", "mkdirRoot")

MkdirRoot(i) == MkdirStep(i, "mkdirRoot", RootDir, "mkdirStream", "lstatRoot")

LstatRoot(i) == LstatStep(i, "lstatRoot", RootDir, "mkdirStream")

\* ... then Mkdir of the stream directory and its Lstat.
MkdirStream(i) ==
    MkdirStep(i, "mkdirStream", DirOf(call[i].p), "marshal", "lstatStream")

LstatStream(i) == LstatStep(i, "lstatStream", DirOf(call[i].p), "marshal")

\* A mutant of Marshal: the error of proto.Marshal is not checked, and the
\* call goes on to write what it has.
MarshalErrIgnored(i) ==
    /\ Running(i, "marshal")
    /\ call' = [call EXCEPT ![i].pc = "open", ![i].b = ProtoMarshal(call[i].msg).bytes]
    /\ UNCHANGED <<mainPc, ctxDone, exitCode, dirs, files, log, trace, lastWriter, stderr>>

\* b, err := proto.Marshal(msg)
Marshal(i) ==
    /\ Running(i, "marshal")
    /\ LET r == ProtoMarshal(call[i].msg) IN
         call' = [call EXCEPT
                    ![i].pc = IF r.ok THEN "open" ELSE "ret",
                    ![i].b = r.bytes,
                    ![i].err = IF r.ok THEN NoErr
                               ELSE SinkErr("failed to serialize message", << >>,
                                            "invalid UTF-8")]
    /\ UNCHANGED <<mainPc, ctxDone, exitCode, dirs, files, log, trace, lastWriter, stderr>>

\* A mutant of OpenRes: the file is opened with O_EXCL as well.
OpenResExcl(ds, path, fault) ==
    IF DirOf(path) \notin ds THEN "ENOENT"
    ELSE IF path \in DOMAIN files THEN "EEXIST"
    ELSE IF fault THEN "EIO"
    ELSE "ok"

\* open(2) with O_WRONLY|O_CREATE|O_TRUNC: the outcome on the directories ds.
OpenRes(ds, path, fault) ==
    IF DirOf(path) \notin ds THEN "ENOENT"
    ELSE IF fault THEN "EIO"
    ELSE "ok"

\* os.WriteFile, first half: OpenFile(p, O_WRONLY|O_CREATE|O_TRUNC, 0644)
\* creates the file or cuts an existing one to length 0.
OpenFile(i) ==
    /\ Running(i, "open")
    /\ \E fault \in {f \in BOOLEAN : f => OpenRes(dirs, call[i].p, FALSE) = "ok"} :
         LET path == call[i].p
             res == OpenRes(dirs, path, fault)
             op == IF path \in DOMAIN files THEN "truncate" ELSE "create"
         IN
         /\ files' = IF res = "ok" THEN (path :> << >>) @@ files ELSE files
         /\ trace' = IF res = "ok"
                     THEN trace \cup {[call |-> i, op |-> op, path |-> path]}
                     ELSE trace
         /\ call' = [call EXCEPT
                       ![i].pc = IF res = "ok" THEN "write" ELSE "ret",
                       ![i].err = IF res = "ok" THEN NoErr
                                  ELSE SinkErr("failed to write file", path, res)]
    /\ UNCHANGED <<mainPc, ctxDone, exitCode, dirs, log, lastWriter, stderr>>

\* os.WriteFile, second half: f.Write(data) at the descriptor's own offset 0,
\* then f.Close(). The write may stop short with an error after ShortWrite
\* bytes; the close may report an error after a complete write.
WriteClose(i) ==
    /\ Running(i, "write")
    /\ \E k \in {ShortWrite, Len(call[i].b)}, closeErr \in BOOLEAN :
         LET path == call[i].p
             data == SubSeq(call[i].b, 1, k)
             ok == k = Len(call[i].b) /\ ~closeErr
         IN
         /\ closeErr => k = Len(call[i].b)
         /\ files' = [files EXCEPT ![path] = WriteAt0(@, data)]
         /\ trace' = trace \cup {[call |-> i, op |-> "write", path |-> path]}
         /\ lastWriter' = (path :> i) @@ lastWriter
         /\ call' = [call EXCEPT
                       ![i].pc = "ret",
                       ![i].err = IF ok THEN NoErr
                                  ELSE SinkErr("failed to write file", path, "EIO")]
    /\ UNCHANGED <<mainPc, ctxDone, exitCode, dirs, log, stderr>>

\* One step of the goroutine serving call i.
SinkExport(i) ==
    \/ TakeTimestamp(i)
    \/ StatStream(i) \/ StatRoot(i) \/ MkdirRoot(i) \/ LstatRoot(i)
    \/ MkdirStream(i) \/ LstatStream(i)
    \/ Marshal(i) \/ OpenFile(i) \/ WriteClose(i)

Export(i) == Receive(i) \/ LogRequest(i) \/ SinkExport(i) \/ Return(i)

Next ==
    \/ Listen
    \/ Interrupt
    \/ SelectCtxDone
    \/ SelectListenErr
    \/ \E i \in Calls : Export(i)
    \/ \E i \in Calls : Cancel(i)

Spec == Init /\ [][Next]_vars

\* ------------------------------------------------------------------ claims

Done(i) == call[i].pc = "done"

Succeeded(i) == Done(i) /\ call[i].resp.code = "OK"

Failed(i) == Done(i) /\ call[i].resp.code # "OK"

\* Call i has entered Sink.Export and read the clock.
Stamped(i) == call[i].t # 0

\* The stream directory the layout <root>/traces, <root>/metrics, <root>/logs
\* gives each service.
OwnDir(svc) ==
    CASE svc = "trace" -> <<"data", "traces">>
      [] svc = "metrics" -> <<"data", "metrics">>
      [] svc = "logs" -> <<"data", "logs">>

\* Calls i and j went to the same stream with the same receipt timestamp.
SameStamp(i, j) ==
    /\ i # j
    /\ Stamped(i) /\ Stamped(j)
    /\ call[i].svc = call[j].svc
    /\ call[i].t = call[j].t

\* The files call i has added to the file system.
CreatedBy(i) == {r.path : r \in {x \in trace : x.call = i /\ x.op = "create"}}

\* Call i has left one new file under its stream's directory, and the file
\* decodes to the request i received.
StoredOwnRecord(i) ==
    /\ CreatedBy(i) = {call[i].p}
    /\ DirOf(call[i].p) = OwnDir(call[i].svc)
    /\ call[i].p \in DOMAIN files
    /\ ProtoUnmarshal(files[call[i].p]) = [ok |-> TRUE, msg |-> call[i].msg]

\* C1 as stated: every successful Export call, in any interleaving, has added
\* exactly one new file under its stream's directory whose bytes decode to
\* the request received.
C1_EverySuccessStored == \A i \in Calls : Succeeded(i) => StoredOwnRecord(i)

\* C1, amended: a successful Export call whose receipt timestamp no other call
\* to the same stream has obtained has added exactly one new file under its
\* stream's directory, and the bytes of the file decode to the request received.
C1_UniqueStampStored ==
    \A i \in Calls :
        (Succeeded(i) /\ \A j \in Calls : ~SameStamp(i, j)) => StoredOwnRecord(i)

\* Two calls have succeeded, one of them the long request on a timestamp of
\* its own, and its file is in place.
C1_Witness ==
    \E i, j \in Calls :
        /\ i # j /\ Succeeded(i) /\ Succeeded(j)
        /\ ~SameStamp(i, j)
        /\ call[i].msg = LongReq
        /\ StoredOwnRecord(i)

\* What lies under a stream directory: whether it exists, and its files with
\* their contents.
UnderDir(d) == <<d \in dirs, [q \in {x \in DOMAIN files : DirOf(x) = d} |-> files[q]]>>

\* The paths below the storage root that call i has created or modified.
TouchedBy(i) == {r.path : r \in {x \in trace : x.call = i /\ Len(x.path) > 1}}

\* The stream directory a touched path lies in.
StreamDirOf(q) == SubSeq(q, 1, 2)

\* A step that changes a stream's directory or a file in it is a step of an
\* Export call of that stream's service, so every step of a call leaves the
\* directories and files of the other two streams as they were.
OthersUntouched ==
    \A svc \in Services :
        UnderDir(OwnDir(svc))' # UnderDir(OwnDir(svc))
        => \E i \in Calls : Export(i) /\ call'[i].svc = svc

\* C2: stream isolation. An Export call creates or modifies files only under
\* <root>/<its own stream>/, it leaves the other two streams' directories and
\* files unchanged, and no request is written under more than one stream.
C2_StreamIsolation ==
    /\ [](\A i \in Calls : \A q \in TouchedBy(i) : StreamDirOf(q) = OwnDir(call[i].svc))
    /\ [][OthersUntouched]_vars

\* A trace call and a metrics call have both stored their files.
C2_Witness ==
    \E i, j \in Calls :
        /\ call[i].svc = "trace" /\ call[j].svc = "metrics"
        /\ Succeeded(i) /\ Succeeded(j)
        /\ UnderDir(OwnDir("trace"))[2] # << >>
        /\ UnderDir(OwnDir("metrics"))[2] # << >>
        /\ UnderDir(OwnDir("logs")) = <<FALSE, << >> >>

\* The causes of a failure that lie in the failing call itself: a system call
\* of its own that the environment failed, or its own request.
OwnCauses == {"EIO", "invalid UTF-8"}

\* C3: a persistence failure makes that call return an Internal error and
\* nothing else. No step of a handler ends the process, and a call fails only
\* for a cause of its own: nothing another call left behind, failed or not,
\* makes a call fail.
C3_FailureIsolated ==
    /\ [](\A i \in Calls :
            call[i].err # NoErr =>
                /\ call[i].err.cause \in OwnCauses
                /\ Done(i) => call[i].resp.code = "Internal")
    /\ [][(mainPc' # mainPc \/ exitCode' # exitCode) => \A i \in Calls : ~Export(i)]_vars

\* A call failed in its write and left a cut file behind; another call to the
\* same path then succeeded and the file holds its record.
C3_Witness ==
    \E i, j \in Calls :
        /\ i # j
        /\ Failed(i) /\ call[i].err.text = "failed to write file"
        /\ Succeeded(j)
        /\ call[i].p = call[j].p
        /\ call[i].msg # call[j].msg
        /\ files[call[j].p] = call[j].b
        /\ mainPc = "serve"

\* The log entries of call i that carry the cause of its failure.
CauseLogged(i) ==
    {e \in BagToSet(log) : e.call = i /\ e.text = <<call[i].err>>}

\* C4 as stated: a failed Export returns only the Internal code and the fixed
\* message, and the cause of the failure is in the server's log.
C4_CauseLoggedNotEchoed ==
    \A i \in Calls :
        Failed(i) =>
            /\ call[i].resp = [code |-> "Internal", message |-> <<"error writing data">>]
            /\ CauseLogged(i) # {}

\* Call i's file is in place and holds exactly the serialization of its request.
HoldsOwnRecord(i) ==
    /\ call[i].p \in DOMAIN files
    /\ files[call[i].p] = ProtoMarshal(call[i].msg).bytes

\* C5: two Export calls for the same stream whose receipt timestamps differ
\* go to two distinct files and neither touches the other's file; when both
\* have succeeded (and no further call shares a timestamp with either) each
\* file holds its own call's record.
C5_DistinctStampsDistinctFiles ==
    \A i, j \in Calls :
        (/\ i # j
         /\ Stamped(i) /\ Stamped(j)
         /\ call[i].svc = call[j].svc
         /\ call[i].t # call[j].t)
        => /\ call[i].p # call[j].p
           /\ call[j].p \notin TouchedBy(i)
           /\ (/\ Succeeded(i) /\ Succeeded(j)
               /\ \A k \in Calls \ {i, j} : ~SameStamp(k, i) /\ ~SameStamp(k, j))
              => HoldsOwnRecord(i) /\ HoldsOwnRecord(j)

\* Two calls for the same stream, one nanosecond apart, have both succeeded
\* with different requests.
C5_Witness ==
    \E i, j \in Calls :
        /\ Succeeded(i) /\ Succeeded(j)
        /\ call[i].svc = call[j].svc
        /\ call[j].t = call[i].t + 1
        /\ call[i].msg = ShortReq /\ call[j].msg = LongReq
        /\ HoldsOwnRecord(i) /\ HoldsOwnRecord(j)

\* C6 as stated: when two Export calls for the same stream obtained the same
\* timestamp and both returned success, the one file at their path holds the
\* serialization of the record of the call that wrote last.
C6_LastWriterWins ==
    \A i, j \in Calls :
        (SameStamp(i, j) /\ Succeeded(i) /\ Succeeded(j))
        => /\ call[i].p = call[j].p
           /\ call[i].p \in DOMAIN files
           /\ lastWriter[call[i].p] \in {i, j}
           /\ files[call[i].p] = ProtoMarshal(call[lastWriter[call[i].p]].msg).bytes

\* The calls that target path q.
Writers(q) == {i \in Calls : Stamped(i) /\ call[i].p = q}

\* C7 as stated: every file, once the writes to it have finished, holds the
\* serialization of exactly one received request, also when two writers
\* targeted the same path. (Stated for the files all of whose writers
\* returned success.)
C7_OneRecordPerFile ==
    \A q \in DOMAIN files :
        (\A i \in Writers(q) : Succeeded(i))
        => \E i \in Writers(q) : files[q] = ProtoMarshal(call[i].msg).bytes

\* The mkdir calls issued by call i.
MkdirsBy(i) == {r.path : r \in {x \in trace : x.call = i /\ x.op = "mkdir"}}

\* Call i has os.MkdirAll behind it, with success.
PastMkdirAll(i) ==
    \/ call[i].pc \in {"marshal", "open", "write"}
    \/ call[i].pc \in {"ret", "done"} /\ call[i].err.text # "failed to create directory"

\* C8: directory creation is lazy and idempotent. Starting without a storage
\* root, a call that is past MkdirAll has <root> and <root>/<stream> in place;
\* MkdirAll fails only when a mkdir of the call itself was failed by the
\* system, never because another call, earlier or concurrent, made the
\* directory; and a call that found the stream directory issues no mkdir.
C8_LazyIdempotentMkdir ==
    \A i \in Calls :
        /\ PastMkdirAll(i) => RootDir \in dirs /\ OwnDir(call[i].svc) \in dirs
        /\ call[i].err.text = "failed to create directory" => call[i].err.cause = "EIO"
        /\ call[i].sawDir => MkdirsBy(i) = {}

\* A first call made <root> and <root>/<stream>; a second call for the same
\* stream found the directory, issued no mkdir, and both succeeded.
C8_Witness ==
    \E i, j \in Calls :
        /\ i # j /\ call[i].svc = call[j].svc
        /\ Succeeded(i) /\ Succeeded(j)
        /\ MkdirsBy(i) = {RootDir, OwnDir(call[i].svc)}
        /\ call[j].sawDir /\ MkdirsBy(j) = {}

\* Two concurrent first calls for one stream both issued the mkdir of the
\* stream directory (one of them got EEXIST) and both succeeded.
C8_WitnessConcurrent ==
    \E i, j \in Calls :
        /\ i # j /\ call[i].svc = call[j].svc
        /\ Succeeded(i) /\ Succeeded(j)
        /\ OwnDir(call[i].svc) \in MkdirsBy(i) \cap MkdirsBy(j)

\* The distinct log lines of call i, and how many lines it has in all.
RequestLines(i) == {e \in BagToSet(log) : e.call = i}

RECURSIVE CountLines(_)
CountLines(es) ==
    IF es = {} THEN 0
    ELSE LET e == CHOOSE x \in es : TRUE IN CopiesIn(e, log) + CountLines(es \ {e})

\* C9: every request that reached a handler has exactly one log line, the
\* rendering of the request, and the line is there before Sink.Export is
\* entered: a call with no line yet has read no clock and touched no path.
\* (A call the exit of the process ended is judged by the states before.)
C9_LoggedBeforePersistence ==
    \A i \in Calls :
        /\ CountLines(RequestLines(i)) <= 1
        /\ \A e \in RequestLines(i) : e.text = PrototextFormat(call[i].msg)
        /\ call[i].pc \in {"idle", "klog"} => RequestLines(i) = {}
        /\ call[i].pc \notin {"idle", "klog", "killed"} => RequestLines(i) # {}
        /\ RequestLines(i) = {} => ~Stamped(i) /\ {x \in trace : x.call = i} = {}

\* A call whose persistence failed has its one log line.
C9_Witness ==
    \E i \in Calls :
        /\ Failed(i) /\ call[i].err.text = "failed to write file"
        /\ CountLines(RequestLines(i)) = 1

SinkPcs ==
    {"now", "statStream", "statRoot", "mkdirRoot", "lstatRoot", "mkdirStream",
     "lstatStream", "marshal", "open", "write"}

\* C10: cancellation neither stops nor rolls back persistence. While the
\* process serves, a cancelled call inside Sink.Export can always take its
\* next step; a cancelled call that returned nil has written its file, which
\* is in place (and holds its record when no other call shares its timestamp);
\* the cancellation itself changes no file or directory, and its only effect
\* is that the response is not delivered.
C10_CancelKeepsPersistence ==
    /\ [](\A i \in Calls :
            /\ (mainPc = "serve" /\ call[i].cancelled /\ call[i].pc \in SinkPcs)
               => ENABLED SinkExport(i)
            /\ Done(i) => call[i].delivered = ~call[i].cancelled
            /\ (Done(i) /\ call[i].cancelled /\ call[i].err = NoErr)
               => /\ call[i].p \in DOMAIN files
                  /\ [call |-> i, op |-> "write", path |-> call[i].p] \in trace
                  /\ (\A j \in Calls : ~SameStamp(i, j)) => HoldsOwnRecord(i))
    /\ [][\A i \in Calls :
            Cancel(i) => /\ files' = files /\ dirs' = dirs
                         /\ call'[i].pc = call[i].pc
                         /\ call'[i].err = call[i].err]_vars

\* A cancelled call has finished: its record is stored and its response was
\* not delivered.
C10_Witness ==
    \E i \in Calls :
        /\ Done(i) /\ call[i].cancelled /\ ~call[i].delivered
        /\ call[i].err = NoErr
        /\ HoldsOwnRecord(i)

\* The listener could not be bound: run returned the error of net.Listen.
BindFailed == ListenFailed \in {stderr[k] : k \in DOMAIN stderr}

\* C11: if the TCP listener cannot be bound at startup, the process reports
\* the error and exits with a non-zero status, and in that run no Export
\* request is served and no file or directory is written; a request is
\* served only by a process whose listener was bound.
C11_BindFailureServesNothing ==
    /\ BindFailed =>
          /\ mainPc = "exited"
          /\ exitCode # 0 /\ exitCode # -1
          /\ stderr = <<ListenFailed>>
          /\ \A i \in Calls : call[i] = IdleCall
          /\ files = << >> /\ dirs = {} /\ trace = {}
          /\ \A e \in BagToSet(log) : e.call = 0
          /\ ~ENABLED Next
    /\ mainPc = "listen" => \A i \in Calls : call[i] = IdleCall

\* The bind failed, after an interrupt that came before it: the process is
\* gone with status 1 and nothing is left to do.
C11_Witness ==
    /\ BindFailed
    /\ ctxDone
    /\ mainPc = "exited" /\ exitCode = 1
    /\ ~ENABLED Next
    /\ \A i \in Calls : ~ENABLED Export(i)

\* The file system calls call i has issued on its file.
FileOpsBy(i) == {x \in trace : x.call = i /\ x.op \in {"create", "truncate", "write"}}

\* Call i has opened its file.
OpenedBy(i) == \E x \in FileOpsBy(i) : x.op \in {"create", "truncate"} /\ x.path = call[i].p

\* Call i has written to its file.
WrittenBy(i) == [call |-> i, op |-> "write", path |-> call[i].p] \in trace

MkdirPcs ==
    {"statStream", "statRoot", "mkdirRoot", "lstatRoot", "mkdirStream", "lstatStream"}

\* The serialization of call i's request is in b.
Serialized(i) == ProtoMarshal(call[i].msg).ok /\ call[i].b = ProtoMarshal(call[i].msg).bytes

\* Where call i stands agrees with the order directory creation,
\* serialization, file write.
InStepOrder(i) ==
    /\ call[i].pc \in {"idle", "klog", "now"} => MkdirsBy(i) = {}
    /\ call[i].pc \in {"idle", "klog", "now", "marshal"} \cup MkdirPcs
       => call[i].b = << >> /\ FileOpsBy(i) = {} /\ call[i].err = NoErr
    /\ call[i].pc \in {"marshal", "open", "write"} => DirOf(call[i].p) \in dirs
    /\ call[i].pc = "open" => Serialized(i) /\ FileOpsBy(i) = {}
    /\ call[i].pc = "write" => Serialized(i) /\ OpenedBy(i) /\ ~WrittenBy(i)
    /\ FileOpsBy(i) # {} /\ call[i].pc # "killed"
       => Serialized(i) /\ \A x \in FileOpsBy(i) : x.path = call[i].p

\* The error of call i names the step that failed, and the steps after the
\* failed one were not run.
AbortedAtFirstFailure(i) ==
    /\ call[i].err.text \in {"", "failed to create directory",
                              "failed to serialize message", "failed to write file"}
    /\ call[i].err # NoErr => call[i].pc \in {"ret", "done"}
    /\ call[i].err.text = "failed to create directory"
       => /\ call[i].err.path = DirOf(call[i].p)
          /\ MkdirsBy(i) # {}
          /\ call[i].b = << >> /\ FileOpsBy(i) = {}
    /\ call[i].err.text = "failed to serialize message"
       => /\ ~ProtoMarshal(call[i].msg).ok
          /\ DirOf(call[i].p) \in dirs
          /\ call[i].b = << >> /\ FileOpsBy(i) = {}
    /\ call[i].err.text = "failed to write file"
       => /\ call[i].err.path = call[i].p
          /\ DirOf(call[i].p) \in dirs
          /\ Serialized(i)
    /\ call[i].pc \in {"ret", "done"} /\ call[i].err = NoErr
       => Serialized(i) /\ OpenedBy(i) /\ WrittenBy(i)

\* Sink.Export returns nil only out of a file write that put all of b into
\* the file.
NilOnlyAfterWrite ==
    \A i \in Calls :
        (call[i].pc # "ret" /\ call'[i].pc = "ret" /\ call'[i].err = NoErr)
        => /\ call[i].pc = "write"
           /\ SubSeq(files'[call[i].p], 1, Len(call[i].b)) = call[i].b

\* C12: Sink.Export runs directory creation, serialization and file write in
\* this order, and the first failing step aborts the call with an error that
\* names the step: after a failed directory creation nothing is serialized and
\* no file is written; after a failed serialization no file is created or
\* modified and the stream directory is there; nil is returned only after the
\* file write returned without error.
C12_StepsInOrderFirstFailureAborts ==
    /\ [](\A i \in Calls : InStepOrder(i) /\ AbortedAtFirstFailure(i))
    /\ [][NilOnlyAfterWrite]_vars

\* One call made its directories and failed to serialize, leaving no file in
\* its stream directory; another failed to create its directory; both
\* returned the Internal error.
C12_Witness ==
    \E i, j \in Calls :
        /\ Failed(i) /\ call[i].err.text = "failed to serialize message"
        /\ MkdirsBy(i) = {RootDir, OwnDir(call[i].svc)}
        /\ UnderDir(OwnDir(call[i].svc)) = <<TRUE, << >> >>
        /\ Failed(j) /\ call[j].err.text = "failed to create directory"
        /\ OwnDir(call[j].svc) \notin dirs

\* Call i is in flight: its handler has been entered and has not returned.
InFlight(i) == call[i].pc \notin {"idle", "done", "killed"}

\* How a process that started successfully stands: it runs with nothing on
\* standard error, or it has ended with status 1 on one of two errors, the
\* context's only after an interrupt. An interrupt that has arrived can end
\* the process at once, whatever the calls in flight are doing, and a call
\* is cut off only by the end of the process.
EndsOnInterruptOrServeError ==
    /\ mainPc = "serve" => exitCode = -1 /\ stderr = << >>
    /\ (mainPc = "exited" /\ ~BindFailed)
       => /\ exitCode = 1
          /\ stderr \in {<<ContextCanceled>>, <<ServeFailed>>}
          /\ stderr = <<ContextCanceled>> => ctxDone
          /\ \A i \in Calls : ~InFlight(i)
          /\ ~ENABLED Next
    /\ (mainPc = "serve" /\ ctxDone) => ENABLED SelectCtxDone
    /\ \A i \in Calls : call[i].pc = "killed" => mainPc = "exited"

\* The steps that end a serving process are the two cases of the select; the
\* one taken on interrupt reports the context's error, completes no call in
\* flight and writes nothing; the interrupt itself ends nothing.
EndsWithoutDrain ==
    /\ (mainPc = "serve" /\ mainPc' # "serve")
       => /\ SelectCtxDone \/ SelectListenErr
          /\ ~ctxDone => stderr' = <<ServeFailed>>
          /\ files' = files /\ dirs' = dirs /\ trace' = trace
          /\ \A i \in Calls : InFlight(i) => call'[i].pc = "killed"
    /\ ctxDone' # ctxDone => mainPc' = mainPc /\ exitCode' = exitCode /\ call' = call

\* C13: after a successful start the process ends only when the interrupt
\* has cancelled the context or when the serving loop returns; on interrupt
\* run returns the context's cancellation error without stopping or draining
\* the server, so the process exits with status 1, and a call in flight is
\* cut off where it stands.
C13_InterruptExitsOneNoDrain ==
    /\ []EndsOnInterruptOrServeError
    /\ [][EndsWithoutDrain]_vars

\* The interrupt ended the process with status 1 while a call had opened its
\* file and not yet written it: the file is there, empty.
C13_Witness ==
    /\ mainPc = "exited" /\ exitCode = 1
    /\ stderr = <<ContextCanceled>>
    /\ \E i \in Calls :
          /\ call[i].pc = "killed"
          /\ OpenedBy(i) /\ ~WrittenBy(i)
          /\ call[i].p \in DOMAIN files /\ files[call[i].p] = << >>

====
